---------------------------- MODULE Spec2Model ----------------------------
(***************************************************************************)
(* A model of the wmp channels (include/wmp/mpsc.hpp, oneshot.hpp).        *)
(*                                                                         *)
(* Every channel is a shared "inner" object guarded by an SRW lock with    *)
(* condition variables.  A thread's call is cut at the points where other  *)
(* threads can interleave: before the lock is acquired, while it sleeps on *)
(* a condition variable (the lock is released), and between the release of *)
(* the lock and the WakeConditionVariable that follows it.                 *)
(***************************************************************************)
EXTENDS Integers, Sequences, FiniteSets, TLC

\* ------------------------------------------------------------------ bounds
MaxCapacity == 2     \* capacities tried by create(capacity): 1..MaxCapacity
MaxSends    == 1     \* calls made by each MPSC sender handle
MaxRecvs    == 2     \* calls made by the MPSC receiver handle
MaxOneshotCalls == 2 \* calls made through each ONESHOT handle before it dies
MaxBroadcasts == 2   \* broadcasts made through the WATCH sender
MaxWatchCalls == 2   \* recv/borrow calls made through each WATCH receiver

\* ----------------------------------------------------------------- threads
Senders  == {"s1", "s2"}           \* the sender and one clone()
Receiver == "r"
Threads  == Senders \cup {Receiver}

None     == "none"
NoValue  == <<>>                   \* an empty std::optional<T>, an unset T
Garbage  == <<"garbage">>          \* what front() of an empty queue reads

VARIABLES
    \* mpsc::detail::inner
    buffer,      \* std::queue<T> buffer, front first
    capacity,    \* size_t const capacity
    lock,        \* SRWLOCK lock: the exclusive owner, or None
    nonfull,     \* CONDITION_VARIABLE nonfull: the threads asleep on it
    nonempty,    \* CONDITION_VARIABLE nonempty: the threads asleep on it
    \* per thread: the call in progress
    pc,          \* where the thread stands in its call
    op,          \* the member function being executed
    arg,         \* sender: the parameter value
    error,       \* send_timeout / recv_timeout: the local error
    value,       \* receiver: the local std::optional<T> value
    calls,       \* number of calls the handle has made
    slept,       \* what the last SleepConditionVariableSRW returned
    \* observation
    inflight,    \* the values pushed and not yet returned by the receiver
    pushes,      \* how many times the call in progress pushed its value
    ub,          \* front()/pop() was executed on an empty queue
    atCall,      \* buffer size when the call took the lock
    atTimeout,   \* buffer size when the call's wait timed out (-1: it did not)
    last         \* the call that returned last

mvars == <<buffer, capacity, lock, nonfull, nonempty, pc, op, arg, error,
           value, calls, slept, inflight, pushes, ub, atCall, atTimeout,
           last>>

VARIABLES
    \* oneshot::detail::inner
    o_state,     \* detail::state state
    o_value,     \* std::optional<T> value: the slot
    o_lock,      \* SRWLOCK lock: the exclusive owner, or None
    tx_cv,       \* CONDITION_VARIABLE tx_cv: the threads asleep on it
    rx_cv,       \* CONDITION_VARIABLE rx_cv: the threads asleep on it
    \* per handle: the call in progress
    o_pc,        \* where the handle's thread stands in its call
    o_op,        \* the member function being executed
    o_arg,       \* sender: the parameter value
    o_prev,      \* the local prev
    o_local,     \* receiver: the local std::optional<T> value
    o_calls,     \* number of calls the handle has made
    o_alive,     \* the handle has not been destroyed
    \* observation
    o_entry,     \* the state the call found when it took the lock
    o_after,     \* the call began after a receive had returned a value
    received,    \* a recv/try_recv has returned a value
    extracted,   \* the receiver took the value of the send_sync in progress
    closeCalled, \* a close() (explicit or by a destructor) has set CLOSED
    o_last       \* the call that returned last

ovars == <<o_state, o_value, o_lock, tx_cv, rx_cv, o_pc, o_op, o_arg, o_prev,
           o_local, o_calls, o_alive, o_entry, o_after, received, extracted,
           closeCalled, o_last>>

\* wmp::watch: detail::inner, the handles, and each call's locals
VARIABLES
    w_object,     \* inner::object: k after the k-th broadcast, 0 is init
    w_version,    \* inner::version (low bit: CLOSED)
    w_writer,     \* holder of object_lock in exclusive mode, or None
    w_readers,    \* number of holds of object_lock in shared mode
    w_cv,         \* threads asleep on object_cv
    w_handle,     \* per handle: "unborn", "alive" or "dropped"
    m_version,    \* receiver::m_version, per receiver
    w_borrows,    \* outstanding borrow objects, per receiver
    w_pc,         \* position of each handle's owner inside its call
    w_op,         \* the call in progress, per handle
    w_published,  \* recv's local published
    w_calls,      \* calls made so far, per handle
    w_entrySeen,  \* m_version when the call in progress started
    w_entryVer,   \* inner::version when the call in progress started
    w_ub,         \* object_lock was released by a guard that did not hold it
    w_last        \* the call that returned last: [who, op, ret]

wvars == <<w_object, w_version, w_writer, w_readers, w_cv, w_handle,
           m_version, w_borrows, w_pc, w_op, w_published, w_calls,
           w_entrySeen, w_entryVer, w_ub, w_last>>

vars == <<mvars, ovars, wvars>>

ERROR_SUCCESS == "ERROR_SUCCESS"
ERROR_TIMEOUT == "ERROR_TIMEOUT"

NoCall == [who |-> None, op |-> None, ret |-> None]

\* mpsc::create(capacity): an empty queue, nobody holds the lock or sleeps
MpscInit ==
    /\ capacity \in 1..MaxCapacity
    /\ buffer = <<>>
    /\ lock = None
    /\ nonfull = {}
    /\ nonempty = {}
    /\ pc = [t \in Threads |-> "idle"]
    /\ op = [t \in Threads |-> None]
    /\ arg = [t \in Threads |-> NoValue]
    /\ error = [t \in Threads |-> ERROR_SUCCESS]
    /\ value = NoValue
    /\ calls = [t \in Threads |-> 0]
    /\ slept = [t \in Threads |-> None]
    /\ inflight = <<>>
    /\ pushes = [t \in Threads |-> 0]
    /\ ub = FALSE
    /\ atCall = [t \in Threads |-> 0]
    /\ atTimeout = [t \in Threads |-> -1]
    /\ last = NoCall

\* ------------------------------------------------- platform primitives

\* SleepConditionVariableSRW, first half: release the lock and sleep on cv
\* (one atomic step of the platform).
SleepOn(t, cv) ==
    /\ lock' = None
    /\ pc' = [pc EXCEPT ![t] = "sleeping"]
    /\ IF cv = "nonfull"
         THEN nonfull' = nonfull \cup {t} /\ UNCHANGED nonempty
         ELSE nonempty' = nonempty \cup {t} /\ UNCHANGED nonfull

\* SleepConditionVariableSRW, second half: the sleep is over and the lock is
\* acquired again before the function returns.
SleepReturn(t) ==
    /\ pc[t] = "awake"
    /\ lock = None
    /\ lock' = t
    /\ pc' = [pc EXCEPT ![t] = "locked"]
    /\ slept' = [slept EXCEPT ![t] = None]

\* t's call returns result: its locals die, the observation is recorded.
Return(t, result) ==
    /\ last' = [who |-> t, op |-> op[t], ret |-> result]
    /\ inflight' = IF t = Receiver /\ result # NoValue /\ inflight # <<>>
                     THEN Tail(inflight) ELSE inflight
    /\ pushes' = [pushes EXCEPT ![t] = 0]
    /\ op' = [op EXCEPT ![t] = None]
    /\ arg' = [arg EXCEPT ![t] = NoValue]
    /\ error' = [error EXCEPT ![t] = ERROR_SUCCESS]
    /\ atCall' = [atCall EXCEPT ![t] = 0]
    /\ atTimeout' = [atTimeout EXCEPT ![t] = -1]
    /\ value' = IF t = Receiver THEN NoValue ELSE value

\* WakeConditionVariable(cv) of thread t: wakes one sleeper, if there is one.
\* A condition variable does not remember a wake nobody was sleeping for.
WakeOne(t, cv) ==
    LET sleepers == IF cv = "nonfull" THEN nonfull ELSE nonempty IN
    IF sleepers = {}
      THEN /\ pc' = [pc EXCEPT ![t] = "idle"]
           /\ UNCHANGED <<nonfull, nonempty, slept>>
      ELSE \E w \in sleepers :
           /\ pc' = [pc EXCEPT ![t] = "idle", ![w] = "awake"]
           /\ slept' = [slept EXCEPT ![w] = "woken"]
           /\ IF cv = "nonfull"
                THEN nonfull' = nonfull \ {w} /\ UNCHANGED nonempty
                ELSE nonempty' = nonempty \ {w} /\ UNCHANGED nonfull

\* A sleep that ends without a wake: SleepConditionVariableSRW returns TRUE
\* ("woken"), as it does after a wake.
SpuriousWakeup(t) ==
    /\ pc[t] = "sleeping"
    /\ pc' = [pc EXCEPT ![t] = "awake"]
    /\ slept' = [slept EXCEPT ![t] = "woken"]
    /\ nonfull' = nonfull \ {t}
    /\ nonempty' = nonempty \ {t}
    /\ UNCHANGED <<buffer, capacity, lock, op, arg, error, value, calls,
                   inflight, pushes, ub, atCall, atTimeout, last>>

\* The timeout of a sleep with a finite dwMilliseconds elapses:
\* SleepConditionVariableSRW returns FALSE ("timeout"), GetLastError() is
\* ERROR_TIMEOUT.
Timeout(t) ==
    /\ pc[t] = "sleeping"
    /\ op[t] \in {"send_timeout", "recv_timeout"}
    /\ pc' = [pc EXCEPT ![t] = "awake"]
    /\ slept' = [slept EXCEPT ![t] = "timeout"]
    /\ atTimeout' = [atTimeout EXCEPT ![t] = Len(buffer)]
    /\ nonfull' = nonfull \ {t}
    /\ nonempty' = nonempty \ {t}
    /\ UNCHANGED <<buffer, capacity, lock, op, arg, error, value, calls,
                   inflight, pushes, ub, atCall, last>>

\* std::queue::front() and pop() on an empty queue are undefined: the object
\* read is garbage, and the size either stays 0 or wraps past the capacity.
PopEmptyOutcomes == { <<>>, [i \in 1..(capacity + 1) |-> Garbage] }

\* ------------------------------------------------------------- the calls

\* A handle calls o; the guard's constructor (AcquireSRWLockExclusive) blocks
\* until the lock is free.  A sender passes a fresh value <<s, k>>.
Call(t, o) ==
    /\ pc[t] = "idle"
    /\ calls[t] < (IF t = Receiver THEN MaxRecvs ELSE MaxSends)
    /\ lock = None
    /\ lock' = t
    /\ calls' = [calls EXCEPT ![t] = @ + 1]
    /\ op' = [op EXCEPT ![t] = o]
    /\ arg' = [arg EXCEPT ![t] = IF t = Receiver THEN NoValue
                                                 ELSE <<t, calls[t] + 1>>]
    /\ atCall' = [atCall EXCEPT ![t] = Len(buffer)]
    /\ pc' = [pc EXCEPT ![t] = "locked"]
    /\ UNCHANGED <<buffer, capacity, nonfull, nonempty, error, value, slept,
                   inflight, pushes, ub, atTimeout, last>>

\* sender::send
send(s) ==
    /\ op[s] = "send"
    /\ \/ /\ pc[s] = "locked"              \* the while loop's test
          /\ IF Len(buffer) >= capacity
               THEN /\ SleepOn(s, "nonfull")
                    /\ UNCHANGED <<buffer, inflight, pushes>>
               ELSE /\ buffer' = Append(buffer, arg[s])
                    /\ inflight' = Append(inflight, arg[s])
                    /\ pushes' = [pushes EXCEPT ![s] = @ + 1]
                    /\ lock' = None
                    /\ pc' = [pc EXCEPT ![s] = "signal"]
                    /\ UNCHANGED <<nonfull, nonempty>>
          /\ UNCHANGED <<capacity, op, arg, error, value, calls, slept, ub,
                         atCall, atTimeout, last>>
       \/ /\ SleepReturn(s)
          /\ UNCHANGED <<buffer, capacity, nonfull, nonempty, op, arg, error,
                         value, calls, inflight, pushes, ub, atCall, atTimeout, last>>
       \/ /\ pc[s] = "signal"              \* WakeConditionVariable, return
          /\ WakeOne(s, "nonempty")
          /\ Return(s, "success")
          /\ UNCHANGED <<buffer, capacity, lock, calls, ub>>

\* sender::send_timeout
send_timeout(s) ==
    /\ op[s] = "send_timeout"
    /\ \/ /\ pc[s] = "locked"              \* the while loop's test
          /\ IF Len(buffer) >= capacity /\ error[s] # ERROR_TIMEOUT
               THEN /\ SleepOn(s, "nonfull")
                    /\ UNCHANGED <<buffer, inflight, pushes, op, arg, error, value,
                                   atCall, atTimeout, last>>
               ELSE IF error[s] = ERROR_SUCCESS
                 THEN /\ buffer' = Append(buffer, arg[s])
                      /\ inflight' = Append(inflight, arg[s])
                    /\ pushes' = [pushes EXCEPT ![s] = @ + 1]
                      /\ lock' = None
                      /\ pc' = [pc EXCEPT ![s] = "signal"]
                      /\ UNCHANGED <<nonfull, nonempty, op, arg, error, value,
                                     atCall, atTimeout, last>>
                 ELSE /\ lock' = None
                      /\ pc' = [pc EXCEPT ![s] = "idle"]
                      /\ Return(s, "timeout")
                      /\ UNCHANGED <<buffer, nonfull, nonempty>>
          /\ UNCHANGED <<capacity, calls, slept, ub>>
       \/ /\ SleepReturn(s)
          /\ error' = [error EXCEPT ![s] =
                          IF slept[s] = "timeout" THEN ERROR_TIMEOUT ELSE @]
          /\ UNCHANGED <<buffer, capacity, nonfull, nonempty, op, arg,
                         value, calls, inflight, pushes, ub, atCall, atTimeout, last>>
       \/ /\ pc[s] = "signal"              \* WakeConditionVariable, return
          /\ WakeOne(s, "nonempty")
          /\ Return(s, "success")
          /\ UNCHANGED <<buffer, capacity, lock, calls, ub>>

\* A try_send whose test for room is off by one: it appends to a full queue.
try_send_off_by_one(s) ==
    /\ op[s] = "try_send"
    /\ \/ /\ pc[s] = "locked"
          /\ IF Len(buffer) <= capacity
               THEN /\ buffer' = Append(buffer, arg[s])
                    /\ inflight' = Append(inflight, arg[s])
                    /\ pushes' = [pushes EXCEPT ![s] = @ + 1]
                    /\ pc' = [pc EXCEPT ![s] = "signal"]
                    /\ UNCHANGED <<op, arg, error, value, atCall, atTimeout,
                                   last>>
               ELSE /\ pc' = [pc EXCEPT ![s] = "idle"]
                    /\ Return(s, "failure")
                    /\ UNCHANGED buffer
          /\ lock' = None
          /\ UNCHANGED <<capacity, nonfull, nonempty, calls, slept, ub>>
       \/ /\ pc[s] = "signal"
          /\ WakeOne(s, "nonempty")
          /\ Return(s, "success")
          /\ UNCHANGED <<buffer, capacity, lock, calls, ub>>

\* sender::try_send
try_send(s) ==
    /\ op[s] = "try_send"
    /\ \/ /\ pc[s] = "locked"
          /\ IF Len(buffer) < capacity
               THEN /\ buffer' = Append(buffer, arg[s])
                    /\ inflight' = Append(inflight, arg[s])
                    /\ pushes' = [pushes EXCEPT ![s] = @ + 1]
                    /\ pc' = [pc EXCEPT ![s] = "signal"]
                    /\ UNCHANGED <<op, arg, error, value, atCall, atTimeout,
                                   last>>
               ELSE /\ pc' = [pc EXCEPT ![s] = "idle"]
                    /\ Return(s, "failure")
                    /\ UNCHANGED buffer
          /\ lock' = None
          /\ UNCHANGED <<capacity, nonfull, nonempty, calls, slept, ub>>
       \/ /\ pc[s] = "signal"
          /\ WakeOne(s, "nonempty")
          /\ Return(s, "success")
          /\ UNCHANGED <<buffer, capacity, lock, calls, ub>>

\* receiver::recv
recv(r) ==
    /\ op[r] = "recv"
    /\ \/ /\ pc[r] = "locked"              \* the while loop's test
          /\ IF Len(buffer) = 0
               THEN /\ SleepOn(r, "nonempty")
                    /\ UNCHANGED <<buffer, value>>
               ELSE /\ value' = Head(buffer)
                    /\ buffer' = Tail(buffer)
                    /\ lock' = None
                    /\ pc' = [pc EXCEPT ![r] = "signal"]
                    /\ UNCHANGED <<nonfull, nonempty>>
          /\ UNCHANGED <<capacity, op, arg, error, calls, slept, inflight, pushes, ub,
                         atCall, atTimeout, last>>
       \/ /\ SleepReturn(r)
          /\ UNCHANGED <<buffer, capacity, nonfull, nonempty, op, arg, error,
                         value, calls, inflight, pushes, ub, atCall, atTimeout, last>>
       \/ /\ pc[r] = "signal"              \* WakeConditionVariable, return
          /\ WakeOne(r, "nonfull")
          /\ Return(r, value)
          /\ UNCHANGED <<buffer, capacity, lock, calls, ub>>

\* receiver::recv_timeout
recv_timeout(r) ==
    /\ op[r] = "recv_timeout"
    /\ \/ /\ pc[r] = "locked"              \* the while loop's test
          /\ IF Len(buffer) = 0 /\ error[r] # ERROR_TIMEOUT
               THEN /\ SleepOn(r, "nonempty")
                    /\ UNCHANGED <<op, arg, error, value, inflight, pushes, atCall,
                                   atTimeout, last>>
               ELSE /\ lock' = None
                    /\ UNCHANGED <<nonfull, nonempty>>
                    /\ IF error[r] = ERROR_SUCCESS
                         THEN /\ pc' = [pc EXCEPT ![r] = "signal"]
                              /\ UNCHANGED <<op, arg, error, value, inflight, pushes,
                                             atCall, atTimeout, last>>
                         ELSE /\ pc' = [pc EXCEPT ![r] = "idle"]
                              /\ Return(r, value)
          /\ UNCHANGED <<buffer, capacity, calls, slept, ub>>
       \/ /\ SleepReturn(r)                \* then the rest of the loop's body
          /\ LET e == IF slept[r] = "timeout" THEN ERROR_TIMEOUT ELSE error[r]
             IN  /\ error' = [error EXCEPT ![r] = e]
                 /\ IF e # ERROR_SUCCESS
                      THEN UNCHANGED <<buffer, value, ub>>
                      ELSE IF Len(buffer) > 0
                        THEN /\ value' = Head(buffer)
                             /\ buffer' = Tail(buffer)
                             /\ UNCHANGED ub
                        ELSE /\ value' = Garbage
                             /\ buffer' \in PopEmptyOutcomes
                             /\ ub' = TRUE
          /\ UNCHANGED <<capacity, nonfull, nonempty, op, arg, calls,
                         inflight, pushes, atCall, atTimeout, last>>
       \/ /\ pc[r] = "signal"              \* WakeConditionVariable, return
          /\ WakeOne(r, "nonfull")
          /\ Return(r, value)
          /\ UNCHANGED <<buffer, capacity, lock, calls, ub>>

\* A try_recv that returns the front value without removing it.
try_recv_keeps_front(r) ==
    /\ op[r] = "try_recv"
    /\ \/ /\ pc[r] = "locked"
          /\ IF Len(buffer) > 0
               THEN /\ value' = Head(buffer)
                    /\ buffer' = buffer
                    /\ pc' = [pc EXCEPT ![r] = "signal"]
                    /\ UNCHANGED <<op, arg, error, inflight, pushes, atCall,
                                   atTimeout, last>>
               ELSE /\ pc' = [pc EXCEPT ![r] = "idle"]
                    /\ Return(r, value)
                    /\ UNCHANGED buffer
          /\ lock' = None
          /\ UNCHANGED <<capacity, nonfull, nonempty, calls, slept, ub>>
       \/ /\ pc[r] = "signal"
          /\ WakeOne(r, "nonfull")
          /\ Return(r, value)
          /\ UNCHANGED <<buffer, capacity, lock, calls, ub>>

\* receiver::try_recv
try_recv(r) ==
    /\ op[r] = "try_recv"
    /\ \/ /\ pc[r] = "locked"
          /\ IF Len(buffer) > 0
               THEN /\ value' = Head(buffer)
                    /\ buffer' = Tail(buffer)
                    /\ pc' = [pc EXCEPT ![r] = "signal"]
                    /\ UNCHANGED <<op, arg, error, inflight, pushes, atCall,
                                   atTimeout, last>>
               ELSE /\ pc' = [pc EXCEPT ![r] = "idle"]
                    /\ Return(r, value)
                    /\ UNCHANGED buffer
          /\ lock' = None
          /\ UNCHANGED <<capacity, nonfull, nonempty, calls, slept, ub>>
       \/ /\ pc[r] = "signal"
          /\ WakeOne(r, "nonfull")
          /\ Return(r, value)
          /\ UNCHANGED <<buffer, capacity, lock, calls, ub>>

Calls ==
    /\ \/ \E s \in Senders :
             \E o \in {"send", "send_timeout", "try_send"} : Call(s, o)
       \/ \E o \in {"recv", "recv_timeout", "try_recv"} : Call(Receiver, o)
    /\ UNCHANGED <<ovars, wvars>>
Send        == (\E s \in Senders : send(s)) /\ UNCHANGED <<ovars, wvars>>
SendTimeout == (\E s \in Senders : send_timeout(s)) /\ UNCHANGED <<ovars, wvars>>
TrySend     == (\E s \in Senders : try_send(s)) /\ UNCHANGED <<ovars, wvars>>
Recv        == recv(Receiver) /\ UNCHANGED <<ovars, wvars>>
RecvTimeout == recv_timeout(Receiver) /\ UNCHANGED <<ovars, wvars>>
TryRecv     == try_recv(Receiver) /\ UNCHANGED <<ovars, wvars>>
Spurious    == (\E t \in Threads : SpuriousWakeup(t)) /\ UNCHANGED <<ovars, wvars>>
TimedOut    == (\E t \in Threads : Timeout(t)) /\ UNCHANGED <<ovars, wvars>>

\* ======================================================== wmp::oneshot

Tx == "tx"                         \* the thread that owns the sender
Rx == "rx"                         \* the thread that owns the receiver
Handles == {Tx, Rx}

\* oneshot::create(): detail::inner's constructor
OneshotInit ==
    /\ o_state = "init"
    /\ o_value = NoValue
    /\ o_lock = None
    /\ tx_cv = {}
    /\ rx_cv = {}
    /\ o_pc = [h \in Handles |-> "idle"]
    /\ o_op = [h \in Handles |-> None]
    /\ o_arg = NoValue
    /\ o_prev = [h \in Handles |-> "init"]
    /\ o_local = NoValue
    /\ o_calls = [h \in Handles |-> 0]
    /\ o_alive = [h \in Handles |-> TRUE]
    /\ o_entry = [h \in Handles |-> "init"]
    /\ o_after = [h \in Handles |-> FALSE]
    /\ received = FALSE
    /\ extracted = FALSE
    /\ closeCalled = FALSE
    /\ o_last = NoCall

\* An is_closed that forgets the CLOSED_RECV state.
is_closed_only(st) == st = "closed"

\* An is_closed that forgets the CLOSED state.
is_closed_recv_only(st) == st = "closed_recv"

\* detail::is_closed
is_closed(st) == st = "closed" \/ st = "closed_recv"

\* ------------------------------------------------- platform primitives

\* SleepConditionVariableSRW, first half: release the lock and sleep on cv.
OneshotSleepOn(h, cv) ==
    /\ o_lock' = None
    /\ o_pc' = [o_pc EXCEPT ![h] = "sleeping"]
    /\ IF cv = "tx_cv"
         THEN tx_cv' = tx_cv \cup {h} /\ UNCHANGED rx_cv
         ELSE rx_cv' = rx_cv \cup {h} /\ UNCHANGED tx_cv

\* SleepConditionVariableSRW, second half: the lock is acquired again and the
\* while loop tests its condition.
OneshotSleepReturn(h) ==
    /\ o_pc[h] = "awake"
    /\ o_lock = None
    /\ o_lock' = h
    /\ o_pc' = [o_pc EXCEPT ![h] = "loop"]
    /\ UNCHANGED <<o_state, o_value, tx_cv, rx_cv, o_op, o_arg, o_prev,
                   o_local, o_calls, o_alive, o_entry, o_after, received,
                   extracted, closeCalled, o_last>>

\* A sleep that ends without a wake.
OneshotSpuriousWakeup(h) ==
    /\ o_pc[h] = "sleeping"
    /\ o_pc' = [o_pc EXCEPT ![h] = "awake"]
    /\ tx_cv' = tx_cv \ {h}
    /\ rx_cv' = rx_cv \ {h}
    /\ UNCHANGED <<o_state, o_value, o_lock, o_op, o_arg, o_prev, o_local,
                   o_calls, o_alive, o_entry, o_after, received, extracted,
                   closeCalled, o_last>>

\* if (cond) WakeConditionVariable(cv): wakes one sleeper, if there is one;
\* then h's call returns (OneshotReturn sets h's own pc).
OneshotWakeIf(h, cond, cv) ==
    LET sleepers == IF cv = "tx_cv" THEN tx_cv ELSE rx_cv IN
    IF cond /\ sleepers # {}
      THEN \E w \in sleepers :
           /\ o_pc' = [o_pc EXCEPT ![h] = "idle", ![w] = "awake"]
           /\ IF cv = "tx_cv"
                THEN tx_cv' = tx_cv \ {w} /\ UNCHANGED rx_cv
                ELSE rx_cv' = rx_cv \ {w} /\ UNCHANGED tx_cv
      ELSE /\ o_pc' = [o_pc EXCEPT ![h] = "idle"]
           /\ UNCHANGED <<tx_cv, rx_cv>>

\* h's call returns result: its locals die, the observation is recorded.  A
\* destructor's return ends the handle.
OneshotReturn(h, result) ==
    /\ o_last' = [who |-> h, op |-> o_op[h], ret |-> result]
    /\ received' = (received \/ (h = Rx /\ o_op[h] \in {"recv", "try_recv"}
                                   /\ result # NoValue))
    /\ extracted' = IF h = Tx THEN FALSE ELSE extracted
    /\ o_alive' = [o_alive EXCEPT ![h] = (o_op[h] # "destroy")]
    /\ o_op' = [o_op EXCEPT ![h] = None]
    /\ o_arg' = IF h = Tx THEN NoValue ELSE o_arg
    /\ o_local' = IF h = Rx THEN NoValue ELSE o_local
    /\ o_prev' = [o_prev EXCEPT ![h] = "init"]
    /\ o_entry' = [o_entry EXCEPT ![h] = "init"]
    /\ o_after' = [o_after EXCEPT ![h] = FALSE]

\* ------------------------------------------------------------- the calls

\* A live handle's owner calls o ("destroy" is the handle's destructor); the
\* guard's constructor blocks until the lock is free.  The k-th send passes
\* the value <<k>>.
OneshotCall(h, o) ==
    /\ o_pc[h] = "idle"
    /\ o_alive[h]
    /\ o = "destroy" \/ o_calls[h] < MaxOneshotCalls
    /\ o_lock = None
    /\ o_lock' = h
    /\ o_calls' = [o_calls EXCEPT ![h] = IF o = "destroy" THEN @ ELSE @ + 1]
    /\ o_op' = [o_op EXCEPT ![h] = o]
    /\ o_arg' = IF o \in {"send_async", "send_sync"}
                  THEN <<o_calls[h] + 1>> ELSE o_arg
    /\ o_entry' = [o_entry EXCEPT ![h] = o_state]
    /\ o_after' = [o_after EXCEPT ![h] = received]
    /\ o_pc' = [o_pc EXCEPT ![h] = "locked"]
    /\ UNCHANGED <<o_state, o_value, tx_cv, rx_cv, o_prev, o_local, o_alive,
                   received, extracted, closeCalled, o_last>>

\* sender::send_async
oneshot_send_async(h) ==
    /\ o_op[h] = "send_async"
    /\ \/ /\ o_pc[h] = "locked"
          /\ o_lock' = None
          /\ IF is_closed(o_state)
               THEN /\ o_pc' = [o_pc EXCEPT ![h] = "idle"]
                    /\ OneshotReturn(h, "failure")
                    /\ UNCHANGED <<o_state, o_value>>
               ELSE /\ o_value' = o_arg
                    /\ o_prev' = [o_prev EXCEPT ![h] = o_state]
                    /\ o_state' = "sent"
                    /\ o_pc' = [o_pc EXCEPT ![h] = "unlocked"]
                    /\ UNCHANGED <<o_op, o_arg, o_local, o_alive, o_entry,
                                   o_after, received, extracted, o_last>>
          /\ UNCHANGED <<tx_cv, rx_cv, o_calls, closeCalled>>
       \/ /\ o_pc[h] = "unlocked"
          /\ OneshotWakeIf(h, o_prev[h] = "wait_recv", "rx_cv")
          /\ OneshotReturn(h, "success")
          /\ UNCHANGED <<o_state, o_value, o_lock, o_calls, closeCalled>>

\* sender::send_sync
oneshot_send_sync(h) ==
    /\ o_op[h] = "send_sync"
    /\ \/ /\ o_pc[h] = "locked"
          /\ IF is_closed(o_state)
               THEN /\ o_lock' = None
                    /\ o_pc' = [o_pc EXCEPT ![h] = "idle"]
                    /\ OneshotReturn(h, "failure")
                    /\ UNCHANGED <<o_state, o_value>>
               ELSE IF o_state = "wait_send"
                 THEN \* receiver already waiting on send()
                      /\ o_value' = o_arg
                      /\ o_state' = "sent"
                      /\ o_lock' = None
                      /\ o_pc' = [o_pc EXCEPT ![h] = "idle"]
                      /\ OneshotReturn(h, IF o_state = "closed_recv"
                                            THEN "success" ELSE "failure")
                 ELSE \* receiver not yet waiting on send()
                      /\ o_value' = o_arg
                      /\ o_state' = "wait_recv"
                      /\ o_pc' = [o_pc EXCEPT ![h] = "loop"]
                      /\ UNCHANGED <<o_lock, o_op, o_arg, o_prev, o_local,
                                     o_alive, o_entry, o_after, received,
                                     extracted, o_last>>
          /\ UNCHANGED <<tx_cv, rx_cv, o_calls, closeCalled>>
       \/ /\ o_pc[h] = "loop"                \* the while loop's test
          /\ IF o_state = "wait_recv"
               THEN /\ OneshotSleepOn(h, "tx_cv")
                    /\ UNCHANGED <<o_state, o_op, o_arg, o_prev, o_local,
                                   o_alive, o_entry, o_after, received,
                                   extracted, o_last>>
               ELSE /\ o_state' = "closed"
                    /\ o_lock' = None
                    /\ o_pc' = [o_pc EXCEPT ![h] = "idle"]
                    /\ OneshotReturn(h, IF o_state = "closed_recv"
                                          THEN "success" ELSE "failure")
                    /\ UNCHANGED <<tx_cv, rx_cv>>
          /\ UNCHANGED <<o_value, o_calls, closeCalled>>

\* sender::close, and sender::~sender, which calls it
oneshot_sender_close(h) ==
    /\ o_op[h] \in {"close", "destroy"}
    /\ \/ /\ o_pc[h] = "locked"
          /\ o_prev' = [o_prev EXCEPT ![h] = o_state]
          /\ o_state' = "closed"
          /\ closeCalled' = TRUE
          /\ o_lock' = None
          /\ o_pc' = [o_pc EXCEPT ![h] = "unlocked"]
          /\ UNCHANGED <<o_value, tx_cv, rx_cv, o_op, o_arg, o_local, o_calls,
                         o_alive, o_entry, o_after, received, extracted,
                         o_last>>
       \/ /\ o_pc[h] = "unlocked"
          /\ OneshotWakeIf(h, o_prev[h] = "wait_send", "rx_cv")
          /\ OneshotReturn(h, "void")
          /\ UNCHANGED <<o_state, o_value, o_lock, o_calls, closeCalled>>

\* receiver::recv
oneshot_recv(h) ==
    /\ o_op[h] = "recv"
    /\ \/ /\ o_pc[h] = "locked"
          /\ IF is_closed(o_state)
               THEN /\ o_lock' = None
                    /\ o_pc' = [o_pc EXCEPT ![h] = "idle"]
                    /\ OneshotReturn(h, o_local)
                    /\ UNCHANGED <<o_state, o_value>>
               ELSE IF o_state = "sent" \/ o_state = "wait_recv"
                 THEN \* value is available, sender possibly waiting
                      /\ o_local' = o_value
                      /\ o_value' = o_local
                      /\ o_prev' = [o_prev EXCEPT ![h] = o_state]
                      /\ extracted' = (extracted \/ o_state = "wait_recv")
                      /\ o_state' = "closed_recv"
                      /\ o_lock' = None
                      /\ o_pc' = [o_pc EXCEPT ![h] = "unlocked"]
                      /\ UNCHANGED <<o_op, o_arg, o_alive, o_entry, o_after,
                                     received, o_last>>
                 ELSE \* value is not yet ready
                      /\ o_state' = "wait_send"
                      /\ o_pc' = [o_pc EXCEPT ![h] = "loop"]
                      /\ UNCHANGED <<o_value, o_lock, o_op, o_arg, o_prev,
                                     o_local, o_alive, o_entry, o_after,
                                     received, extracted, o_last>>
          /\ UNCHANGED <<tx_cv, rx_cv, o_calls, closeCalled>>
       \/ /\ o_pc[h] = "loop"                \* the while loop's test
          /\ IF o_state = "wait_recv"
               THEN /\ OneshotSleepOn(h, "rx_cv")
                    /\ UNCHANGED <<o_state, o_value, o_prev, o_local,
                                   extracted>>
               ELSE /\ o_local' = o_value
                    /\ o_value' = o_local
                    /\ o_prev' = [o_prev EXCEPT ![h] = o_state]
                    /\ extracted' = extracted
                    /\ o_state' = "closed_recv"
                    /\ o_lock' = None
                    /\ o_pc' = [o_pc EXCEPT ![h] = "unlocked"]
                    /\ UNCHANGED <<tx_cv, rx_cv>>
          /\ UNCHANGED <<o_op, o_arg, o_calls, o_alive, o_entry, o_after,
                         received, closeCalled, o_last>>
       \/ /\ o_pc[h] = "unlocked"
          /\ OneshotWakeIf(h, o_prev[h] = "wait_recv", "tx_cv")
          /\ OneshotReturn(h, o_local)
          /\ UNCHANGED <<o_state, o_value, o_lock, o_calls, closeCalled>>

\* A try_recv that ends the channel also when it finds no value.
oneshot_try_recv_consumes(h) ==
    /\ o_op[h] = "try_recv"
    /\ \/ /\ o_pc[h] = "locked"
          /\ o_lock' = None
          /\ IF is_closed(o_state)
               THEN /\ o_pc' = [o_pc EXCEPT ![h] = "idle"]
                    /\ OneshotReturn(h, o_local)
                    /\ UNCHANGED <<o_state, o_value>>
               ELSE /\ o_pc' = [o_pc EXCEPT ![h] = "unlocked"]
                    /\ IF o_state = "sent" \/ o_state = "wait_recv"
                         THEN /\ o_local' = o_value
                              /\ o_value' = o_local
                              /\ o_prev' = [o_prev EXCEPT ![h] = o_state]
                              /\ extracted' =
                                    (extracted \/ o_state = "wait_recv")
                              /\ o_state' = "closed_recv"
                         ELSE /\ o_state' = "closed_recv"
                              /\ UNCHANGED <<o_local, o_value, o_prev,
                                             extracted>>
                    /\ UNCHANGED <<o_op, o_arg, o_alive, o_entry, o_after,
                                   received, o_last>>
          /\ UNCHANGED <<tx_cv, rx_cv, o_calls, closeCalled>>
       \/ /\ o_pc[h] = "unlocked"
          /\ OneshotWakeIf(h, o_prev[h] = "wait_recv", "tx_cv")
          /\ OneshotReturn(h, o_local)
          /\ UNCHANGED <<o_state, o_value, o_lock, o_calls, closeCalled>>

\* receiver::try_recv
oneshot_try_recv(h) ==
    /\ o_op[h] = "try_recv"
    /\ \/ /\ o_pc[h] = "locked"
          /\ o_lock' = None
          /\ IF is_closed(o_state)
               THEN /\ o_pc' = [o_pc EXCEPT ![h] = "idle"]
                    /\ OneshotReturn(h, o_local)
                    /\ UNCHANGED <<o_state, o_value>>
               ELSE /\ o_pc' = [o_pc EXCEPT ![h] = "unlocked"]
                    /\ IF o_state = "sent" \/ o_state = "wait_recv"
                         THEN /\ o_local' = o_value
                              /\ o_value' = o_local
                              /\ o_prev' = [o_prev EXCEPT ![h] = o_state]
                              /\ extracted' =
                                    (extracted \/ o_state = "wait_recv")
                              /\ o_state' = "closed_recv"
                         ELSE UNCHANGED <<o_local, o_value, o_prev, extracted,
                                          o_state>>
                    /\ UNCHANGED <<o_op, o_arg, o_alive, o_entry, o_after,
                                   received, o_last>>
          /\ UNCHANGED <<tx_cv, rx_cv, o_calls, closeCalled>>
       \/ /\ o_pc[h] = "unlocked"
          /\ OneshotWakeIf(h, o_prev[h] = "wait_recv", "tx_cv")
          /\ OneshotReturn(h, o_local)
          /\ UNCHANGED <<o_state, o_value, o_lock, o_calls, closeCalled>>

\* A receiver::close that reports the channel as received from.
oneshot_receiver_close_as_received(h) ==
    /\ o_op[h] \in {"close", "destroy"}
    /\ \/ /\ o_pc[h] = "locked"
          /\ o_prev' = [o_prev EXCEPT ![h] = o_state]
          /\ o_state' = "closed_recv"
          /\ closeCalled' = TRUE
          /\ o_lock' = None
          /\ o_pc' = [o_pc EXCEPT ![h] = "unlocked"]
          /\ UNCHANGED <<o_value, tx_cv, rx_cv, o_op, o_arg, o_local, o_calls,
                         o_alive, o_entry, o_after, received, extracted,
                         o_last>>
       \/ /\ o_pc[h] = "unlocked"
          /\ OneshotWakeIf(h, o_prev[h] = "wait_recv", "tx_cv")
          /\ OneshotReturn(h, "void")
          /\ UNCHANGED <<o_state, o_value, o_lock, o_calls, closeCalled>>

\* A receiver::close that never wakes the sender.
oneshot_receiver_close_silent(h) ==
    /\ o_op[h] \in {"close", "destroy"}
    /\ \/ /\ o_pc[h] = "locked"
          /\ o_prev' = [o_prev EXCEPT ![h] = o_state]
          /\ o_state' = "closed"
          /\ closeCalled' = TRUE
          /\ o_lock' = None
          /\ o_pc' = [o_pc EXCEPT ![h] = "unlocked"]
          /\ UNCHANGED <<o_value, tx_cv, rx_cv, o_op, o_arg, o_local, o_calls,
                         o_alive, o_entry, o_after, received, extracted,
                         o_last>>
       \/ /\ o_pc[h] = "unlocked"
          /\ OneshotWakeIf(h, FALSE, "tx_cv")
          /\ OneshotReturn(h, "void")
          /\ UNCHANGED <<o_state, o_value, o_lock, o_calls, closeCalled>>

\* receiver::close, and receiver::~receiver, which calls it
oneshot_receiver_close(h) ==
    /\ o_op[h] \in {"close", "destroy"}
    /\ \/ /\ o_pc[h] = "locked"
          /\ o_prev' = [o_prev EXCEPT ![h] = o_state]
          /\ o_state' = "closed"
          /\ closeCalled' = TRUE
          /\ o_lock' = None
          /\ o_pc' = [o_pc EXCEPT ![h] = "unlocked"]
          /\ UNCHANGED <<o_value, tx_cv, rx_cv, o_op, o_arg, o_local, o_calls,
                         o_alive, o_entry, o_after, received, extracted,
                         o_last>>
       \/ /\ o_pc[h] = "unlocked"
          /\ OneshotWakeIf(h, o_prev[h] = "wait_recv", "tx_cv")
          /\ OneshotReturn(h, "void")
          /\ UNCHANGED <<o_state, o_value, o_lock, o_calls, closeCalled>>

OneshotCalls ==
    /\ \/ \E o \in {"send_async", "send_sync", "close", "destroy"} :
             OneshotCall(Tx, o)
       \/ \E o \in {"recv", "try_recv", "close", "destroy"} :
             OneshotCall(Rx, o)
    /\ UNCHANGED <<mvars, wvars>>
SendAsync     == oneshot_send_async(Tx) /\ UNCHANGED <<mvars, wvars>>
SendSync      == oneshot_send_sync(Tx) /\ UNCHANGED <<mvars, wvars>>
SenderClose   == oneshot_sender_close(Tx) /\ UNCHANGED <<mvars, wvars>>
OneshotRecv   == oneshot_recv(Rx) /\ UNCHANGED <<mvars, wvars>>
OneshotTryRecv == oneshot_try_recv(Rx) /\ UNCHANGED <<mvars, wvars>>
ReceiverClose == oneshot_receiver_close(Rx) /\ UNCHANGED <<mvars, wvars>>
OneshotWoken  == (\E h \in Handles : OneshotSleepReturn(h)) /\ UNCHANGED <<mvars, wvars>>
OneshotSpurious ==
    (\E h \in Handles : OneshotSpuriousWakeup(h)) /\ UNCHANGED <<mvars, wvars>>

OneshotNext ==
    \/ OneshotCalls
    \/ SendAsync
    \/ SendSync
    \/ SenderClose
    \/ OneshotRecv
    \/ OneshotTryRecv
    \/ ReceiverClose
    \/ OneshotWoken
    \/ OneshotSpurious

\* ========================================================== wmp::watch

WSender    == "wtx"
WReceivers == {"r1", "r2"}         \* the receiver of create() and one clone()
WThreads   == {WSender} \cup WReceivers

\* version constants
CLOSED    == 1
VERSION_0 == 0
VERSION_1 == 2

\* The bitwise complement, on 16 bits.
BitNot16(a) == 65535 - a
\* A mask that keeps every bit.
KeepAllBits(a) == 65535
\* A fetch_or that stores its operand.
StoreOperand(a, b) == b

\* C++ operators on unsigned integers: a & b, a | b, and !a (whose bool result
\* is promoted to 0 or 1).
RECURSIVE BitAnd(_, _)
BitAnd(a, b) ==
    IF a = 0 \/ b = 0 THEN 0
    ELSE (a % 2) * (b % 2) + 2 * BitAnd(a \div 2, b \div 2)

RECURSIVE BitOr(_, _)
BitOr(a, b) ==
    IF a = 0 THEN b ELSE IF b = 0 THEN a
    ELSE (IF a % 2 = 1 \/ b % 2 = 1 THEN 1 ELSE 0)
           + 2 * BitOr(a \div 2, b \div 2)

LogicalNot(a) == IF a = 0 THEN 1 ELSE 0

\* create(init): version VERSION_1, the receiver's m_version VERSION_0; the
\* clone does not exist yet.
WatchInit ==
    /\ w_object = 0
    /\ w_version = VERSION_1
    /\ w_writer = None
    /\ w_readers = 0
    /\ w_cv = {}
    /\ w_handle = [t \in WThreads |-> IF t = "r2" THEN "unborn" ELSE "alive"]
    /\ m_version = [r \in WReceivers |-> VERSION_0]
    /\ w_borrows = [r \in WReceivers |-> 0]
    /\ w_pc = [t \in WThreads |-> "idle"]
    /\ w_op = [t \in WThreads |-> None]
    /\ w_published = [r \in WReceivers |-> 0]
    /\ w_calls = [t \in WThreads |-> 0]
    /\ w_entrySeen = [r \in WReceivers |-> 0]
    /\ w_entryVer = [t \in WThreads |-> 0]
    /\ w_ub = FALSE
    /\ w_last = NoCall

\* An m_shared.lock() that always succeeds.
SharedAlways == TRUE

\* m_shared.lock() succeeds: some receiver handle still owns the inner state.
SharedAlive == \E r \in WReceivers : w_handle[r] = "alive"

\* t's call returns result; its locals die.
WatchReturn(t, result) ==
    /\ w_last' = [who |-> t, op |-> w_op[t], ret |-> result]
    /\ w_op' = [w_op EXCEPT ![t] = None]
    /\ w_published' =
          [r \in WReceivers |-> IF r = t THEN 0 ELSE w_published[r]]
    /\ w_entrySeen' =
          [r \in WReceivers |-> IF r = t THEN 0 ELSE w_entrySeen[r]]
    /\ w_entryVer' = [w_entryVer EXCEPT ![t] = 0]

\* WakeAllConditionVariable(&object_cv) as the last thing t's call does.
WakeAll(t) ==
    /\ w_pc' = [x \in WThreads |->
                  IF x = t THEN "idle"
                  ELSE IF x \in w_cv THEN "awake" ELSE w_pc[x]]
    /\ w_cv' = {}

\* The owner of a live handle starts call o.  What the program does after
\* object_lock was released by a guard that did not hold it is not followed
\* beyond the calls in progress.
WatchCall(t, o) ==
    /\ w_pc[t] = "idle"
    /\ ~w_ub
    /\ w_handle[t] = "alive"
    /\ w_calls[t] < (IF t = WSender THEN MaxBroadcasts ELSE MaxWatchCalls)
    /\ w_calls' = [w_calls EXCEPT ![t] = @ + 1]
    /\ w_op' = [w_op EXCEPT ![t] = o]
    /\ w_pc' = [w_pc EXCEPT ![t] = "start"]
    /\ w_entryVer' = [w_entryVer EXCEPT ![t] = w_version]
    /\ w_entrySeen' = [r \in WReceivers |->
                         IF r = t THEN m_version[r] ELSE w_entrySeen[r]]
    /\ UNCHANGED <<w_object, w_version, w_writer, w_readers, w_cv, w_handle,
                   m_version, w_borrows, w_published, w_ub, w_last>>

\* ReleaseSRWLockShared by a guard that holds the lock in shared mode.  When
\* another guard's stray release already took the hold away, this release is
\* itself one of a lock that is not held.
ReleaseShared ==
    /\ w_readers' = IF w_readers > 0 THEN w_readers - 1 ELSE 0
    /\ w_ub' = (w_ub \/ w_readers = 0)

\* unique_srw's move constructor: the m_state left in the moved-from guard,
\* given the m_state it had (other.m_state is not written).
moved_from_state(st) == st

\* A broadcast that increments the version by one.
watch_broadcast_by_one(t) ==
    /\ w_op[t] = "broadcast"
    /\ \/ /\ w_pc[t] = "start"              \* m_shared.lock()
          /\ IF SharedAlive
               THEN /\ w_pc' = [w_pc EXCEPT ![t] = "acquire"]
                    /\ UNCHANGED <<w_op, w_published, w_entrySeen,
                                   w_entryVer, w_last>>
               ELSE /\ w_pc' = [w_pc EXCEPT ![t] = "idle"]
                    /\ WatchReturn(t, "failure")
          /\ UNCHANGED <<w_object, w_version, w_writer, w_readers, w_cv,
                         w_ub>>
       \/ /\ w_pc[t] = "acquire"            \* scoped_srw, exclusive
          /\ w_writer = None
          /\ w_readers = 0
          /\ w_writer' = t
          /\ w_pc' = [w_pc EXCEPT ![t] = "write"]
          /\ UNCHANGED <<w_object, w_version, w_readers, w_cv, w_op,
                         w_published, w_entrySeen, w_entryVer, w_ub, w_last>>
       \/ /\ w_pc[t] = "write"              \* object = ...; guard released
          /\ w_object' = w_calls[t]
          /\ w_writer' = None
          /\ w_pc' = [w_pc EXCEPT ![t] = "bump"]
          /\ UNCHANGED <<w_version, w_readers, w_cv, w_op,
                         w_published, w_entrySeen, w_entryVer, w_ub, w_last>>
       \/ /\ w_pc[t] = "bump"               \* atomic_fetch_add(&version, 2)
          /\ w_version' = w_version + 1
          /\ w_pc' = [w_pc EXCEPT ![t] = "wake"]
          /\ UNCHANGED <<w_object, w_writer, w_readers, w_cv, w_op,
                         w_published, w_entrySeen, w_entryVer, w_ub, w_last>>
       \/ /\ w_pc[t] = "wake"
          /\ WakeAll(t)
          /\ WatchReturn(t, "success")
          /\ UNCHANGED <<w_object, w_version, w_writer, w_readers, w_ub>>
    /\ UNCHANGED <<w_handle, m_version, w_borrows, w_calls>>

\* sender::broadcast; the k-th broadcast publishes the object k.
watch_broadcast(t) ==
    /\ w_op[t] = "broadcast"
    /\ \/ /\ w_pc[t] = "start"              \* m_shared.lock()
          /\ IF SharedAlive
               THEN /\ w_pc' = [w_pc EXCEPT ![t] = "acquire"]
                    /\ UNCHANGED <<w_op, w_published, w_entrySeen,
                                   w_entryVer, w_last>>
               ELSE /\ w_pc' = [w_pc EXCEPT ![t] = "idle"]
                    /\ WatchReturn(t, "failure")
          /\ UNCHANGED <<w_object, w_version, w_writer, w_readers, w_cv,
                         w_ub>>
       \/ /\ w_pc[t] = "acquire"            \* scoped_srw, exclusive
          /\ w_writer = None
          /\ w_readers = 0
          /\ w_writer' = t
          /\ w_pc' = [w_pc EXCEPT ![t] = "write"]
          /\ UNCHANGED <<w_object, w_version, w_readers, w_cv, w_op,
                         w_published, w_entrySeen, w_entryVer, w_ub, w_last>>
       \/ /\ w_pc[t] = "write"              \* object = ...; guard released
          /\ w_object' = w_calls[t]
          /\ w_writer' = None
          /\ w_pc' = [w_pc EXCEPT ![t] = "bump"]
          /\ UNCHANGED <<w_version, w_readers, w_cv, w_op,
                         w_published, w_entrySeen, w_entryVer, w_ub, w_last>>
       \/ /\ w_pc[t] = "bump"               \* atomic_fetch_add(&version, 2)
          /\ w_version' = w_version + 2
          /\ w_pc' = [w_pc EXCEPT ![t] = "wake"]
          /\ UNCHANGED <<w_object, w_writer, w_readers, w_cv, w_op,
                         w_published, w_entrySeen, w_entryVer, w_ub, w_last>>
       \/ /\ w_pc[t] = "wake"
          /\ WakeAll(t)
          /\ WatchReturn(t, "success")
          /\ UNCHANGED <<w_object, w_version, w_writer, w_readers, w_ub>>
    /\ UNCHANGED <<w_handle, m_version, w_borrows, w_calls>>

\* sender::~sender
watch_sender_destroy(t) ==
    /\ w_handle[t] = "alive"
    /\ \/ /\ w_pc[t] = "idle"               \* m_shared.lock(), fetch_or
          /\ w_op' = [w_op EXCEPT ![t] = "destroy"]
          /\ w_pc' = [w_pc EXCEPT ![t] = "wake"]
          /\ w_version' = IF SharedAlive
                            THEN BitOr(w_version, CLOSED) ELSE w_version
          /\ UNCHANGED <<w_cv, w_handle, w_published, w_entrySeen,
                         w_entryVer, w_last>>
       \/ /\ w_pc[t] = "wake"
          /\ w_op[t] = "destroy"
          /\ WakeAll(t)
          /\ WatchReturn(t, "void")
          /\ w_handle' = [w_handle EXCEPT ![t] = "dropped"]
          /\ UNCHANGED w_version
    /\ UNCHANGED <<w_object, w_writer, w_readers, m_version, w_borrows,
                   w_calls, w_ub>>

\* receiver::recv
watch_recv(r) ==
    /\ w_op[r] = "recv"
    /\ \/ /\ w_pc[r] = "start"     \* load state, exchange, test CLOSED (state
                                   \* is not read after the test)
          /\ m_version' = [m_version EXCEPT
                             ![r] = BitAnd(w_version, LogicalNot(CLOSED))]
          /\ IF BitAnd(w_version, CLOSED) = CLOSED
               THEN /\ w_pc' = [w_pc EXCEPT ![r] = "idle"]
                    /\ WatchReturn(r, NoValue)
               ELSE /\ w_pc' = [w_pc EXCEPT ![r] = "published"]
                    /\ UNCHANGED <<w_op, w_published, w_entrySeen,
                                   w_entryVer, w_last>>
          /\ UNCHANGED <<w_readers, w_cv, w_ub>>
       \/ /\ w_pc[r] = "published" \* published = atomic_load(&version)
          /\ w_published' = [w_published EXCEPT ![r] = w_version]
          /\ w_pc' = [w_pc EXCEPT ![r] = "acquire"]
          /\ UNCHANGED <<w_readers, w_cv, m_version, w_op,
                         w_entrySeen, w_entryVer, w_ub, w_last>>
       \/ /\ w_pc[r] \in {"acquire", "awake"}  \* the lock, in shared mode
          /\ w_writer = None
          /\ w_readers' = w_readers + 1
          /\ w_pc' = [w_pc EXCEPT
                        ![r] = IF w_pc[r] = "awake" THEN "reload" ELSE "loop"]
          /\ UNCHANGED <<w_cv, m_version, w_op, w_published,
                         w_entrySeen, w_entryVer, w_ub, w_last>>
       \/ /\ w_pc[r] = "loop"               \* the while loop's test
          /\ IF m_version[r] = w_published[r]
               THEN /\ ReleaseShared
                    /\ w_cv' = w_cv \cup {r}
                    /\ w_pc' = [w_pc EXCEPT ![r] = "sleeping"]
                    /\ UNCHANGED <<m_version, w_op, w_published,
                                   w_entrySeen, w_entryVer, w_last>>
               ELSE /\ m_version' = [m_version EXCEPT ![r] = w_published[r]]
                    /\ ReleaseShared
                    /\ w_pc' = [w_pc EXCEPT ![r] = "idle"]
                    /\ WatchReturn(r, <<w_object>>)
                    /\ UNCHANGED w_cv
       \/ /\ w_pc[r] = "reload"    \* published = atomic_load(&version)
          /\ w_published' = [w_published EXCEPT ![r] = w_version]
          /\ w_pc' = [w_pc EXCEPT ![r] = "loop"]
          /\ UNCHANGED <<w_readers, w_cv, m_version, w_op,
                         w_entrySeen, w_entryVer, w_ub, w_last>>
    /\ UNCHANGED <<w_object, w_version, w_writer, w_handle, w_borrows,
                   w_calls>>

\* receiver::recv's wait ends without a wake.
watch_recv_spurious(r) ==
    /\ w_op[r] = "recv"
    /\ w_pc[r] = "sleeping"
    /\ w_cv' = w_cv \ {r}
    /\ w_pc' = [w_pc EXCEPT ![r] = "awake"]
    /\ UNCHANGED <<w_object, w_version, w_writer, w_readers, w_handle,
                   m_version, w_borrows, w_op, w_published, w_calls,
                   w_entrySeen, w_entryVer, w_ub, w_last>>

\* sender::closed: the bool that m_shared.lock() converts to.
watch_closed(t) ==
    /\ w_pc[t] = "idle"
    /\ w_handle[t] = "alive"
    /\ ~w_ub
    /\ w_last' = [who |-> t, op |-> "closed",
                  ret |-> IF SharedAlive THEN "true" ELSE "false"]
    /\ UNCHANGED <<w_object, w_version, w_writer, w_readers, w_cv, w_handle,
                   m_version, w_borrows, w_pc, w_op, w_published,
                   w_calls, w_entrySeen, w_entryVer, w_ub>>

\* receiver::borrow: the guard lock is acquired, the borrow is built from the
\* moved guard, and lock's destructor runs at the return.
watch_borrow(r) ==
    /\ w_op[r] = "borrow"
    /\ \/ /\ w_pc[r] = "start"              \* unique_srw, shared
          /\ w_writer = None
          /\ w_readers' = w_readers + 1
          /\ w_pc' = [w_pc EXCEPT ![r] = "holding"]
          /\ UNCHANGED <<w_borrows, w_op, w_published, w_entrySeen,
                         w_entryVer, w_ub, w_last>>
       \/ /\ w_pc[r] = "holding"
          /\ w_borrows' = [w_borrows EXCEPT ![r] = @ + 1]
          /\ IF moved_from_state("locked") = "locked"
               THEN ReleaseShared
               ELSE UNCHANGED <<w_readers, w_ub>>
          /\ w_pc' = [w_pc EXCEPT ![r] = "idle"]
          /\ WatchReturn(r, "borrow")
    /\ UNCHANGED <<w_object, w_version, w_writer, w_cv, w_handle, m_version,
                   w_calls>>

\* borrow::~borrow: m_read_lock, whose m_state is locked, releases the lock.
\* If the guard it was moved from has released already, the release is one of
\* a lock this guard does not hold: it may do nothing, take a shared hold away
\* from another reader, or drop the writer's hold.
watch_borrow_release(r) ==
    /\ w_pc[r] = "idle"
    /\ w_borrows[r] > 0
    /\ w_borrows' = [w_borrows EXCEPT ![r] = @ - 1]
    /\ IF moved_from_state("locked") = "unlocked"
         THEN ReleaseShared /\ UNCHANGED w_writer
         ELSE /\ w_ub' = TRUE
              /\ w_readers' \in {w_readers,
                                 IF w_readers > 0 THEN w_readers - 1 ELSE 0}
              /\ w_writer' \in {w_writer, None}
    /\ w_last' = [who |-> r, op |-> "~borrow", ret |-> "void"]
    /\ UNCHANGED <<w_object, w_version, w_cv, w_handle, m_version, w_pc, w_op,
                   w_published, w_calls, w_entrySeen, w_entryVer>>

\* receiver::clone: the new handle inherits m_version.
watch_clone(r, c) ==
    /\ w_pc[r] = "idle"
    /\ w_handle[r] = "alive"
    /\ w_handle[c] = "unborn"
    /\ w_handle' = [w_handle EXCEPT ![c] = "alive"]
    /\ m_version' = [m_version EXCEPT ![c] = m_version[r]]
    /\ w_last' = [who |-> r, op |-> "clone", ret |-> "void"]
    /\ UNCHANGED <<w_object, w_version, w_writer, w_readers, w_cv, w_borrows,
                   w_pc, w_op, w_published, w_calls, w_entrySeen,
                   w_entryVer, w_ub>>

\* receiver::~receiver (a handle is not destroyed while a borrow made through
\* it is outstanding).
watch_receiver_destroy(r) ==
    /\ w_pc[r] = "idle"
    /\ w_handle[r] = "alive"
    /\ w_borrows[r] = 0
    /\ w_handle' = [w_handle EXCEPT ![r] = "dropped"]
    /\ w_last' = [who |-> r, op |-> "destroy", ret |-> "void"]
    /\ UNCHANGED <<w_object, w_version, w_writer, w_readers, w_cv, m_version,
                   w_borrows, w_pc, w_op, w_published, w_calls,
                   w_entrySeen, w_entryVer, w_ub>>

WatchCalls ==
    /\ \/ WatchCall(WSender, "broadcast")
       \/ \E r \in WReceivers : \E o \in {"recv", "borrow"} : WatchCall(r, o)
    /\ UNCHANGED <<mvars, ovars>>
Broadcast       == watch_broadcast(WSender) /\ UNCHANGED <<mvars, ovars>>
SenderDestroy   == watch_sender_destroy(WSender) /\ UNCHANGED <<mvars, ovars>>
WatchRecv ==
    (\E r \in WReceivers : watch_recv(r) \/ watch_recv_spurious(r))
       /\ UNCHANGED <<mvars, ovars>>
Closed == watch_closed(WSender) /\ UNCHANGED <<mvars, ovars>>
Borrow ==
    (\E r \in WReceivers : watch_borrow(r)) /\ UNCHANGED <<mvars, ovars>>
BorrowRelease ==
    (\E r \in WReceivers : watch_borrow_release(r))
       /\ UNCHANGED <<mvars, ovars>>
Clone == watch_clone("r1", "r2") /\ UNCHANGED <<mvars, ovars>>
ReceiverDestroy ==
    (\E r \in WReceivers : watch_receiver_destroy(r))
       /\ UNCHANGED <<mvars, ovars>>

WatchNext ==
    \/ WatchCalls
    \/ Broadcast
    \/ SenderDestroy
    \/ WatchRecv
    \/ Closed
    \/ Borrow
    \/ BorrowRelease
    \/ Clone
    \/ ReceiverDestroy

Init == MpscInit /\ OneshotInit /\ WatchInit

Next ==
    \/ Calls
    \/ Send
    \/ SendTimeout
    \/ TrySend
    \/ Recv
    \/ RecvTimeout
    \/ TryRecv
    \/ Spurious
    \/ TimedOut

Spec == Init /\ [][Next]_vars

\* The ONESHOT channel alone (the MPSC channel of capacity 1 is left unused).
OneshotInit1 == Init /\ capacity = 1
OneshotSpec == OneshotInit1 /\ [][OneshotNext]_vars

\* The WATCH channel alone.
WatchInit1 == Init /\ capacity = 1
WatchSpec == WatchInit1 /\ [][WatchNext]_vars

\* The WATCH channel's receivers and sender without borrows and closed():
\* recv, broadcast, clone and the sender's destruction, under fair scheduling:
\* a thread inside a call that can step again and again eventually steps, and
\* a sender's destruction, once begun, completes.  No wait is assumed to end
\* spuriously and no owner is assumed to make a further call.
WatchRecvCalls ==
    /\ \/ WatchCall(WSender, "broadcast")
       \/ \E r \in WReceivers : WatchCall(r, "recv")
    /\ UNCHANGED <<mvars, ovars>>
WatchRecvNext ==
    \/ WatchRecvCalls
    \/ Broadcast
    \/ SenderDestroy
    \/ WatchRecv
    \/ Clone
WatchFairness ==
    /\ SF_vars(Broadcast)
    /\ WF_vars(SenderDestroy /\ w_op[WSender] = "destroy")
    /\ \A r \in WReceivers :
          SF_vars(watch_recv(r) /\ UNCHANGED <<mvars, ovars>>)
WatchFairSpec == WatchInit1 /\ [][WatchRecvNext]_vars /\ WatchFairness

\* Fair scheduling of the ONESHOT channel: a thread inside a call that can
\* step again and again eventually steps (the SRW lock is granted to a thread
\* that keeps asking for it).  No wait is assumed to end spuriously and no
\* owner is assumed to make a further call.
OneshotFairness ==
    /\ SF_vars(SendAsync)
    /\ SF_vars(SendSync)
    /\ SF_vars(SenderClose)
    /\ SF_vars(OneshotRecv)
    /\ SF_vars(OneshotTryRecv)
    /\ SF_vars(ReceiverClose)
    /\ SF_vars(OneshotWoken)
OneshotFairSpec == OneshotInit1 /\ [][OneshotNext]_vars /\ OneshotFairness


\* Fair scheduling: a thread that can run over and over does run (a thread
\* waiting for the lock gets it although others keep taking it), and a finite
\* timeout elapses.  Nothing obliges a handle to be called again or a sleep
\* to end spuriously.
Fairness ==
    /\ \A s \in Senders :
          /\ SF_vars(send(s) /\ UNCHANGED <<ovars, wvars>>)
          /\ SF_vars(send_timeout(s) /\ UNCHANGED <<ovars, wvars>>)
          /\ SF_vars(try_send(s) /\ UNCHANGED <<ovars, wvars>>)
    /\ SF_vars(Recv)
    /\ SF_vars(RecvTimeout)
    /\ SF_vars(TryRecv)
    /\ \A t \in Threads : WF_vars(Timeout(t) /\ UNCHANGED <<ovars, wvars>>)

FairSpec == Init /\ [][Next]_vars /\ Fairness

\* ================================================================ claims

\* t's call returns in this step.
Returning(t) == pc[t] # "idle" /\ pc'[t] = "idle"

\* The receiver's local optional, as a sequence.
Held == IF value = NoValue THEN <<>> ELSE <<value>>

\* C1: the queue length is always in [0, N], and no operation pops an empty
\* queue, whatever the interleaving and however a wait ends.
QueueLengthInBounds == Len(buffer) <= capacity /\ ~ub

\* C2: the values returned by the receiver followed by the queue contents are
\* the values pushed, in the order of the pushes: what was pushed and not yet
\* returned is what the receiver holds followed by the queue.  (Stated for the
\* runs free of undefined behaviour.)
NoLossNoDuplication == ~ub => inflight = Held \o buffer

\* C3: try_send on a full queue returns failure, does not sleep and leaves
\* the queue unchanged; on a queue with room it appends its value at the back
\* and returns success.
TrySendContract ==
    /\ [](\A s \in Senders : op[s] = "try_send" => pc[s] # "sleeping")
    /\ [][\A s \in Senders : op[s] = "try_send" =>
            /\ (pc[s] = "locked" /\ pc'[s] # "locked") =>
                  IF Len(buffer) >= capacity
                    THEN /\ buffer' = buffer
                         /\ pc'[s] = "idle"
                         /\ last' = [who |-> s, op |-> "try_send",
                                     ret |-> "failure"]
                    ELSE /\ buffer' = Append(buffer, arg[s])
                         /\ pc'[s] = "signal"
            /\ (pc[s] = "signal" /\ pc'[s] # "signal") =>
                  /\ buffer' = buffer
                  /\ last' = [who |-> s, op |-> "try_send",
                              ret |-> "success"]]_vars

TrySendOnFullQueue ==
    /\ last.op = "try_send"
    /\ last.ret = "failure"
    /\ Len(buffer) = capacity
    /\ capacity > 1

\* C4: try_recv on an empty queue returns nothing, does not sleep and leaves
\* the queue unchanged; on a nonempty queue it removes exactly the front
\* element and returns it.
TryRecvContract ==
    /\ [](op[Receiver] = "try_recv" => pc[Receiver] # "sleeping")
    /\ [][op[Receiver] = "try_recv" =>
            /\ (pc[Receiver] = "locked" /\ pc'[Receiver] # "locked") =>
                  IF Len(buffer) = 0
                    THEN /\ buffer' = buffer
                         /\ pc'[Receiver] = "idle"
                         /\ last' = [who |-> Receiver, op |-> "try_recv",
                                     ret |-> NoValue]
                    ELSE /\ buffer' = Tail(buffer)
                         /\ value' = Head(buffer)
                         /\ pc'[Receiver] = "signal"
            /\ (pc[Receiver] = "signal" /\ pc'[Receiver] # "signal") =>
                  /\ buffer' = buffer
                  /\ value # NoValue
                  /\ last' = [who |-> Receiver, op |-> "try_recv",
                              ret |-> value]]_vars

TryRecvOnEmptyQueue ==
    /\ last.op = "try_recv"
    /\ last.ret = NoValue
    /\ buffer = <<>>
    /\ \E s \in Senders : calls[s] > 0

\* C5: recv_timeout returns nothing only when its wait timed out with the
\* queue still empty; called on a nonempty queue it returns a value.
RecvTimeoutContract ==
    [][(op[Receiver] = "recv_timeout" /\ Returning(Receiver)) =>
          /\ last'.ret = NoValue => atTimeout[Receiver] = 0
          /\ atCall[Receiver] > 0 => last'.ret # NoValue]_vars

\* C6: send_timeout returns timeout only if the queue was still full when the
\* timeout elapsed, and then its value was not appended; when it returns
\* success its value was appended exactly once.
SendTimeoutContract ==
    [][\A s \in Senders : (op[s] = "send_timeout" /\ Returning(s)) =>
          /\ last'.ret \in {"success", "timeout"}
          /\ last'.ret = "timeout" =>
                pushes[s] = 0 /\ atTimeout[s] >= capacity
          /\ last'.ret = "success" => pushes[s] = 1]_vars

\* C7: no lost wake-up.  A sender asleep in send eventually returns unless the
\* receiver stops calling, and a receiver asleep in recv eventually returns
\* once the queue is nonempty.  (Stated for the runs free of undefined
\* behaviour.)
NoLostWakeup ==
    /\ \A s \in Senders :
          (op[s] = "send" /\ pc[s] = "sleeping" /\ ~ub)
             ~> (pc[s] = "idle" \/ pc[Receiver] = "idle" \/ ub)
    /\ (op[Receiver] = "recv" /\ pc[Receiver] = "sleeping"
            /\ Len(buffer) > 0 /\ ~ub)
          ~> (pc[Receiver] = "idle" \/ ub)

\* t is asleep in a wait that has no timeout: send on nonfull, recv on
\* nonempty.
Blocked(t) == pc[t] = "sleeping" /\ op[t] \in {"send", "recv"}

\* The predicate of t's while loop: the queue is full for a sender, empty for
\* the receiver.
WaitPredicate(t) ==
    IF t = Receiver THEN Len(buffer) = 0 ELSE Len(buffer) >= capacity

\* C31: the channel never deadlocks.  The receiver is never asleep in recv
\* while every sender is asleep in send, and no thread is asleep in send or
\* recv with its wait predicate false while no other thread is inside a call
\* that could signal it (every other thread is itself asleep in send or recv,
\* or makes no call).  (Stated for the runs free of undefined behaviour.)
NoDeadlock ==
    ~ub =>
      /\ ~(Blocked(Receiver) /\ \A s \in Senders : Blocked(s))
      /\ \A t \in Threads :
            ~(/\ Blocked(t)
              /\ ~WaitPredicate(t)
              /\ \E u \in Threads \ {t} : Blocked(u)
              /\ \A u \in Threads \ {t} : pc[u] = "idle" \/ Blocked(u))


\* ------------------------------------------------------ ONESHOT claims

OneshotReturning(h) == o_pc[h] # "idle" /\ o_pc'[h] = "idle" /\ o_op'[h] = None

\* C8: at most one recv/try_recv of a channel returns a value: a receive that
\* returns when a value has already been received returns nothing, and every
\* call that starts after a receive has returned a value returns nothing (recv,
\* try_recv) or failure (send_async, send_sync).
AtMostOneReceive ==
    [][\A h \in Handles :
         OneshotReturning(h) =>
           /\ (o_op[h] \in {"recv", "try_recv"} /\ (received \/ o_after[h]))
                 => o_last'.ret = NoValue
           /\ (o_op[h] \in {"send_async", "send_sync"} /\ o_after[h])
                 => o_last'.ret = "failure"]_vars

\* A send_sync has returned failure on a channel nobody closed, because the
\* value of an earlier send had already been received.
SendAfterReceiveFails ==
    /\ received
    /\ ~closeCalled
    /\ o_last.who = Tx
    /\ o_last.op = "send_sync"
    /\ o_last.ret = "failure"

\* C9: a recv() that starts in the INIT state (nothing sent, not closed)
\* returns nothing only if a close() closed the channel.
RecvWaitsForSender ==
    [][(OneshotReturning(Rx) /\ o_op[Rx] = "recv" /\ o_entry[Rx] = "init"
          /\ o_last'.ret = NoValue) => closeCalled]_vars

\* C10: send_sync returns success iff the receiver took its value while the
\* sender was blocked (state WAIT_RECV, so before any close), whatever the
\* receiver does between taking the value and the sender's resumption.
SendSyncSuccessIffExtracted ==
    [][(OneshotReturning(Tx) /\ o_op[Tx] = "send_sync")
          => (o_last'.ret = "success" <=> extracted)]_vars

\* C11: whenever send_sync returns success the receiver has taken the value
\* passed to that send_sync: the state WAIT_RECV is that of a blocked send_sync
\* whose argument is in the slot, and success is returned only after a recv or
\* try_recv took the slot's value in that state.
SendSyncSuccessMeansTaken ==
    /\ [](o_state = "wait_recv" =>
             o_op[Tx] = "send_sync" /\ o_value = o_arg /\ o_arg # NoValue)
    /\ [][(OneshotReturning(Tx) /\ o_op[Tx] = "send_sync"
             /\ o_last'.ret = "success") => extracted]_vars

\* A send_sync has returned success.
SendSyncSucceeded ==
    /\ o_last.who = Tx
    /\ o_last.op = "send_sync"
    /\ o_last.ret = "success"
    /\ received

\* C12: CLOSED and CLOSED_RECV are terminal: no step changes the state once
\* it is CLOSED or CLOSED_RECV.
ClosedStatesTerminal ==
    [][is_closed(o_state) => o_state' = o_state]_vars

\* C13: when one side closes (close() or destruction) while the other is
\* blocked in send_sync or recv, the blocked call returns, send_sync with
\* failure and recv with nothing.
CloseReleasesBlockedPeer ==
    /\ (o_pc[Tx] = "sleeping" /\ o_op[Tx] = "send_sync" /\ o_state = "closed")
          ~> (o_last.who = Tx /\ o_last.op = "send_sync"
                /\ o_last.ret = "failure")
    /\ (o_pc[Rx] = "sleeping" /\ o_op[Rx] = "recv" /\ o_state = "closed")
          ~> (o_last.who = Rx /\ o_last.op = "recv" /\ o_last.ret = NoValue)

\* A send_sync is asleep on a channel the receiver closed without taking the
\* value.
BlockedSendSyncPeerClosed ==
    /\ o_pc[Tx] = "sleeping"
    /\ o_op[Tx] = "send_sync"
    /\ o_state = "closed"
    /\ ~received
    /\ o_value # NoValue

SendOps == {"send_async", "send_sync"}
RecvOps == {"recv", "try_recv"}

\* C14: a send or receive that starts on a channel in the CLOSED state never
\* waits, never changes the state, and returns failure (send_async, send_sync)
\* or nothing (recv, try_recv).
ClosedChannelRefuses ==
    /\ [](\A h \in Handles :
            (o_op[h] \in SendOps \cup RecvOps /\ o_entry[h] = "closed"
               /\ o_pc[h] # "idle")
              => o_pc[h] = "locked" /\ o_state = "closed")
    /\ [][\A h \in Handles :
            (OneshotReturning(h) /\ o_entry[h] = "closed") =>
               /\ o_op[h] \in SendOps => o_last'.ret = "failure"
               /\ o_op[h] \in RecvOps => o_last'.ret = NoValue
               /\ o_state' = "closed"]_vars

\* A send_sync, the sender's first call, has returned failure on a channel
\* that was closed with nothing sent.
SendOnClosedEmptyChannel ==
    /\ closeCalled
    /\ o_value = NoValue
    /\ ~received
    /\ o_calls[Tx] = 1
    /\ o_last = [who |-> Tx, op |-> "send_sync", ret |-> "failure"]

\* C15: a try_recv() issued by the receiver right after its own close(), with
\* a deposited value still in the slot, returns that value.
TryRecvAfterCloseCollects ==
    [][(OneshotReturning(Rx) /\ o_op[Rx] = "try_recv"
          /\ o_last = [who |-> Rx, op |-> "close", ret |-> "void"]
          /\ o_entry[Rx] = "closed" /\ o_value # NoValue)
         => o_last'.ret = o_value]_vars

\* C16: a try_recv() that finds an open channel without a value (INIT) never
\* waits, leaves the state and the value slot as they are and returns nothing;
\* a send_async that starts in INIT returns success, and a try_recv that
\* starts in SENT returns the value deposited.
TryRecvLeavesOpenChannel ==
    /\ [](o_op[Rx] = "try_recv" => o_pc[Rx] \in {"locked", "unlocked"})
    /\ [][(o_op[Rx] = "try_recv" /\ o_pc[Rx] = "locked" /\ o_state = "init"
             /\ o_pc'[Rx] # "locked")
            => /\ o_state' = "init"
               /\ o_value' = o_value
               /\ o_pc'[Rx] = "unlocked"
               /\ o_local' = NoValue]_vars
    /\ [][(OneshotReturning(Rx) /\ o_op[Rx] = "try_recv")
            => o_last'.ret = o_local]_vars
    /\ [][(OneshotReturning(Tx) /\ o_op[Tx] = "send_async"
             /\ o_entry[Tx] = "init") => o_last'.ret = "success"]_vars
    /\ [][(o_op[Rx] = "try_recv" /\ o_pc[Rx] = "locked" /\ o_state = "sent"
             /\ o_pc'[Rx] # "locked")
            => o_local' = o_value /\ o_value # NoValue]_vars

\* The receiver's second try_recv has returned the value of a send_async that
\* found the channel still in INIT.
TryRecvThenSendThenTryRecv ==
    /\ o_calls[Rx] = 2
    /\ o_calls[Tx] = 1
    /\ o_pc[Rx] = "idle"
    /\ o_last.who = Rx
    /\ o_last.op = "try_recv"
    /\ o_last.ret = <<1>>
    /\ o_state = "closed_recv"
    /\ ~closeCalled

\* C28: the value slot holds a value exactly when the state is SENT or
\* WAIT_RECV; it is empty in INIT, WAIT_SEND, CLOSED and CLOSED_RECV.
SlotMatchesState ==
    (o_value # NoValue) <=> (o_state \in {"sent", "wait_recv"})

\* C29: a send that starts when a value has been deposited (state SENT)
\* returns failure, and no step replaces a value in the slot by another one.
SingleSuccessfulSend ==
    /\ [][(OneshotReturning(Tx) /\ o_op[Tx] \in SendOps
             /\ o_entry[Tx] = "sent") => o_last'.ret = "failure"]_vars
    /\ [][(o_value # NoValue /\ o_value' # NoValue)
             => o_value' = o_value]_vars

\* C30: the receiver's first call, a recv or try_recv that returns right after
\* the sender handle's destruction with a deposited value still in the slot,
\* returns that value.
ValueSurvivesSenderDrop ==
    [][(OneshotReturning(Rx) /\ o_op[Rx] \in RecvOps
          /\ o_calls[Rx] = 1
          /\ o_last = [who |-> Tx, op |-> "destroy", ret |-> "void"]
          /\ o_value # NoValue)
         => o_last'.ret = o_value]_vars

\* -------------------------------------------------------- WATCH claims

WatchReturning(t) ==
    w_pc[t] # "idle" /\ w_pc'[t] = "idle" /\ w_op'[t] = None

\* C17: a recv() that starts with m_version equal to the published version on
\* an open channel does not return before the version has changed (a
\* broadcast, or the sender's destruction).
RecvWaitsForUpdate ==
    [][\A r \in WReceivers :
         (WatchReturning(r) /\ w_op[r] = "recv"
            /\ w_entrySeen[r] = w_entryVer[r]
            /\ w_entryVer[r] % 2 = 0)
           => w_version # w_entryVer[r]]_vars

\* C18: a recv() that starts on a channel closed after a broadcast the
\* receiver has not seen (m_version is neither the published version nor that
\* version without its CLOSED bit) returns a value.
UpdateSurvivesClosure ==
    [][\A r \in WReceivers :
         (WatchReturning(r) /\ w_op[r] = "recv"
            /\ w_entryVer[r] % 2 = 1
            /\ w_entryVer[r] > VERSION_1 + CLOSED
            /\ w_entrySeen[r] # w_entryVer[r]
            /\ w_entrySeen[r] # w_entryVer[r] - CLOSED)
           => w_last'.ret # NoValue]_vars

\* C19: when a recv() returns a value, with object_lock used as intended, the
\* m_version it leaves is the published version (with or without its CLOSED
\* bit) at the moment the object was read.
RecvVersionMatchesValue ==
    [][\A r \in WReceivers :
         (WatchReturning(r) /\ w_op[r] = "recv" /\ ~w_ub
            /\ w_last'.ret # NoValue)
           => m_version'[r] \in {w_version, w_version - (w_version % 2)}]_vars

\* C20: while a borrow is outstanding, object_lock is held in shared mode
\* once for every outstanding borrow and by no writer.
BorrowHoldsReadLock ==
    (\E r \in WReceivers : w_borrows[r] > 0) =>
       /\ w_readers >= w_borrows["r1"] + w_borrows["r2"]
       /\ w_writer = None

NoReceiver == \A r \in WReceivers : w_handle[r] # "alive"

\* C21: closed() returns true iff no receiver handle is alive.
ClosedIffNoReceiver ==
    [][(w_last'.op = "closed"
          /\ (w_last.op # "closed" \/ w_last.ret # w_last'.ret))
         => (w_last'.ret = "true" <=> NoReceiver)]_vars

\* C22: a broadcast returns failure exactly when its m_shared.lock() finds no
\* receiver handle alive, and then it changes neither the object nor the
\* version; otherwise it goes on and returns success.
BroadcastFailsIffNoReceiver ==
    /\ [][(w_op[WSender] = "broadcast" /\ w_pc[WSender] = "start"
             /\ w_pc'[WSender] # "start")
            => IF NoReceiver
                 THEN /\ w_last' = [who |-> WSender, op |-> "broadcast",
                                    ret |-> "failure"]
                      /\ w_object' = w_object
                      /\ w_version' = w_version
                      /\ w_pc'[WSender] = "idle"
                 ELSE w_pc'[WSender] = "acquire"]_vars
    /\ [][(WatchReturning(WSender) /\ w_op[WSender] = "broadcast"
             /\ w_pc[WSender] # "start")
            => w_last'.ret = "success"]_vars

\* The sender's broadcast has returned failure after the last receiver handle
\* was dropped.
BroadcastAfterLastReceiver ==
    /\ NoReceiver
    /\ w_handle["r2"] = "dropped"
    /\ w_last = [who |-> WSender, op |-> "broadcast", ret |-> "failure"]

\* C23: a recv() of the clone that starts with the m_version inherited or
\* received equal to the published version, on an open channel, does not
\* return before the version has changed.
CloneWaitsForUpdate ==
    [][(WatchReturning("r2") /\ w_op["r2"] = "recv"
          /\ w_entrySeen["r2"] = w_entryVer["r2"]
          /\ w_entryVer["r2"] % 2 = 0)
         => w_version # w_entryVer["r2"]]_vars

\* C24: the sender's destruction sets the CLOSED bit, and a recv() in
\* progress when the sender is being or has been destroyed returns.
SenderDropReleasesReceivers ==
    /\ [][(w_op'[WSender] = "destroy" /\ w_op[WSender] # "destroy"
             /\ ~NoReceiver) => w_version' % 2 = 1]_vars
    /\ \A r \in WReceivers :
          (w_op[r] = "recv"
             /\ (w_op[WSender] = "destroy" \/ w_handle[WSender] = "dropped"))
            ~> (w_op[r] # "recv")

\* A recv() that loaded an open state is in progress while the sender's
\* destructor has set the CLOSED bit and not yet returned.
RecvDuringSenderDrop ==
    /\ w_op[WSender] = "destroy"
    /\ w_version % 2 = 1
    /\ \E r \in WReceivers :
          w_op[r] = "recv" /\ w_pc[r] \in {"published", "acquire", "loop"}

\* C25: a broadcast's increment adds exactly 2 to the version, keeping its
\* CLOSED bit, and happens after the broadcast's object was assigned; the
\* object is assigned only under the exclusive lock; a broadcast that returns
\* success has added 2 to the version it found.
BroadcastAddsTwo ==
    /\ [][(w_version' # w_version /\ w_op[WSender] = "broadcast")
            => /\ w_version' = w_version + 2
               /\ w_version' % 2 = w_version % 2
               /\ w_object = w_calls[WSender]
               /\ w_object' = w_object]_vars
    /\ [][(w_object' # w_object /\ ~w_ub) => w_writer = WSender]_vars
    /\ [][(WatchReturning(WSender) /\ w_op[WSender] = "broadcast"
             /\ w_last'.ret = "success")
            => w_version = w_entryVer[WSender] + 2]_vars

\* The second broadcast has returned success.
TwoBroadcastsDone ==
    /\ w_last = [who |-> WSender, op |-> "broadcast", ret |-> "success"]
    /\ w_version = VERSION_1 + 4
    /\ w_object = 2

\* C26: the published version without its CLOSED bit is an even number >= 2
\* and never decreases, and the CLOSED bit is never cleared.
VersionMonotone ==
    /\ [](LET v == w_version - (w_version % 2)
          IN  v >= VERSION_1 /\ v % 2 = 0)
    /\ [][/\ w_version' - (w_version' % 2) >= w_version - (w_version % 2)
          /\ w_version % 2 = 1 => w_version' % 2 = 1]_vars

\* The sender was destroyed after a broadcast, and calls went on afterwards.
ClosedAfterBroadcast ==
    /\ w_version = VERSION_1 + 2 + CLOSED
    /\ w_handle[WSender] = "dropped"
    /\ w_last.op = "recv"

\* C27: the first recv() of the receiver of create(), made and completed
\* before the sender has done anything, never waits, returns init and leaves
\* m_version = 2.
FirstRecvReturnsInit ==
    /\ [](\A r \in WReceivers :
            (w_op[r] = "recv" /\ w_entrySeen[r] = VERSION_0
               /\ w_entryVer[r] = VERSION_1)
              => w_pc[r] \notin {"sleeping", "awake", "reload"})
    /\ [][(WatchReturning("r1") /\ w_op["r1"] = "recv"
             /\ w_entrySeen["r1"] = VERSION_0
             /\ w_calls[WSender] = 0 /\ w_handle[WSender] = "alive"
             /\ w_op[WSender] = None)
            => /\ w_last'.ret = <<0>>
               /\ m_version'["r1"] = VERSION_1]_vars

\* The first recv() has returned init with nothing done by the sender.
FirstRecvDone ==
    /\ w_last = [who |-> "r1", op |-> "recv", ret |-> <<0>>]
    /\ m_version["r1"] = VERSION_1
    /\ w_calls["r1"] = 1
    /\ w_calls[WSender] = 0
    /\ w_handle[WSender] = "alive"

\* ---------------------------------------------------------- lock guards

\* C32: every acquisition through a guard is released exactly once.  The
\* return of borrow(), where the local guard that was moved into the borrow
\* dies, releases nothing, and no guard ever releases object_lock when it
\* holds no share of it (the count of shared holders never goes below zero).
GuardsReleaseOnce ==
    /\ ~w_ub
    /\ [][\A r \in WReceivers :
            (WatchReturning(r) /\ w_op[r] = "borrow")
               => w_readers' = w_readers]_vars

=============================================================================
